---- MODULE Spec2Model ----
(***************************************************************************)
(* Model of python/veteran_job_scraper.py: the matrix scrape orchestrator  *)
(* (JobScraper.scrape_jobs_jobspy), the normalization pipeline             *)
(* (JobScraper.process_jobs, JobScraper.has_veteran_keywords), and the     *)
(* driver (JobScraper.run_scraping, main).                                 *)
(*                                                                         *)
(* Spec      one run of main(): the orchestrator loop with every pattern   *)
(*           of per-call retrieval outcomes, then run_scraping and the     *)
(*           JSON print.                                                   *)
(* FairSpec  Spec for a run whose every call returns: the next step of the  *)
(*           program is always taken.                                      *)
(* PipeSpec  process_jobs on bounded sequences of raw records, one loop    *)
(*           iteration per step, with the clock advancing between reads.   *)
(* DescSpec  process_jobs on one raw record whose description ranges over  *)
(*           every kind of value and over lengths around the 1000 limit.   *)
(* TwiceSpec process_jobs called twice on the same raw records.            *)
(***************************************************************************)
EXTENDS Integers, Sequences, FiniteSets, TLC

(***************************************************************************)
(* Bounds of the model.                                                    *)
(***************************************************************************)
MaxList == 2        \* longest search-term / location list, largest max_* value
MaxCells == 4       \* largest matrix (cells) explored
MaxRetry == 2       \* largest retry_attempts
MaxRecs == 2        \* most records one retrieval call returns
MaxJobs == 2        \* longest raw input of process_jobs in PipeSpec
MaxTick == 1        \* largest clock advance between two clock readings
TicksPerDay == 2    \* clock resolution: ticks in one day
MaxOver == 8        \* how far description lengths range around DESCRIPTION_LIMIT

(***************************************************************************)
(* Program constants.                                                      *)
(***************************************************************************)
DELAY_BETWEEN_REQUESTS == 1     \* scraping_config["delay_between_requests"]
RETRY_BACKOFF == 2              \* time.sleep(2) in the except branch
EXPIRY_DAYS == 30               \* timedelta(days=30)
DESCRIPTION_LIMIT == 1000       \* description[:1000]

VARIABLES
    JOBSPY_AVAILABLE,     \* module flag set by the guarded import
    search_terms,         \* self.search_terms
    locations,            \* self.locations
    scraping_config,      \* self.scraping_config (the keys the loop reads)
    pc,                   \* position of main(): main, cell, attempt, scraped, done
    search_terms_to_use,  \* local of scrape_jobs_jobspy
    locations_to_use,     \* local of scrape_jobs_jobspy
    i, j,                 \* enumerate() indices of the two loops (0-based)
    attempt,              \* index of the retry loop (0-based)
    all_jobs,             \* the accumulator of scrape_jobs_jobspy
    stdout, stderr,       \* what the process has written to each channel
    calls,                \* calls made to the collaborators: scrape_jobs, time.sleep
    jobs,                 \* main's local: what run_scraping returned
    status,               \* running, exit0 (main returned), raised (uncaught exception)
    raw_jobs,             \* argument of process_jobs
    processed_jobs,       \* accumulator of process_jobs
    n,                    \* position of the for loop of process_jobs (records done)
    now,                  \* the clock read by datetime.now()
    ppc,                  \* position of process_jobs: idle, loop, returned
    earlier               \* what earlier calls of process_jobs on raw_jobs returned

vars == <<JOBSPY_AVAILABLE, search_terms, locations, scraping_config, pc,
          search_terms_to_use, locations_to_use, i, j, attempt, all_jobs,
          stdout, stderr, calls, jobs, status,
          raw_jobs, processed_jobs, n, now, ppc, earlier>>

orchVars == <<JOBSPY_AVAILABLE, search_terms, locations, scraping_config, pc,
              search_terms_to_use, locations_to_use, i, j, attempt, all_jobs,
              stdout, stderr, calls, jobs, status>>

pipeVars == <<raw_jobs, processed_jobs, n, now, ppc, earlier>>

Min(a, b) == IF a < b THEN a ELSE b

Range(f) == {f[x] : x \in DOMAIN f}

(***************************************************************************)
(* Python values.  A value is None, a str (a sequence of characters), an   *)
(* int, the float nan, or an empty list.  A raw record is a dict: a        *)
(* function from the keys it has to values.                                *)
(***************************************************************************)
PyNone == [t |-> "none"]
PyStr(s) == [t |-> "str", s |-> s]
PyInt(k) == [t |-> "int", k |-> k]
PyNaN == [t |-> "float_nan"]
PyEmptyList == [t |-> "list"]

IsStr(v) == v.t = "str"

\* dict.get(key, default)
Get(job, key, default) == IF key \in DOMAIN job THEN job[key] ELSE default

\* dict.get(key): the default is None
Get1(job, key) == Get(job, key, PyNone)

(***************************************************************************)
(* Strings are sequences of one-character strings.                         *)
(***************************************************************************)
UPPER == <<"A", "B", "C", "D", "E", "F", "G", "H", "I", "J", "K", "L", "M", "N", "O", "P", "Q", "R", "S", "T", "U", "V", "W", "X", "Y", "Z">>
LOWER == <<"a", "b", "c", "d", "e", "f", "g", "h", "i", "j", "k", "l", "m", "n", "o", "p", "q", "r", "s", "t", "u", "v", "w", "x", "y", "z">>
DIGITS == <<"0", "1", "2", "3", "4", "5", "6", "7", "8", "9">>

\* the lower-case letter of every upper-case letter
LowerMap == [c \in Range(UPPER) |-> LOWER[CHOOSE k \in 1..Len(UPPER) : UPPER[k] = c]]

LowerChar(c) == IF c \in DOMAIN LowerMap THEN LowerMap[c] ELSE c

\* str.lower()
Lower(s) == SubSeq([k \in 1..Len(s) |-> LowerChar(s[k])], 1, Len(s))

\* needle in haystack, for two str
Contains(haystack, needle) ==
    \E k \in 0..(Len(haystack) - Len(needle)) :
        SubSeq(haystack, k + 1, k + Len(needle)) = needle

\* Slice without the cut
Slice_whole(lst, m) == lst

\* Slice cutting one element late
Slice_inclusive(lst, m) == SubSeq(lst, 1, Min(m + 1, Len(lst)))

\* lst[:m] for m >= 0
Slice(lst, m) == SubSeq(lst, 1, Min(m, Len(lst)))

RECURSIVE Decimal(_)
Decimal(k) == IF k < 10 THEN <<DIGITS[k + 1]>>
              ELSE Decimal(k \div 10) \o <<DIGITS[(k % 10) + 1]>>

\* str(v), as a sequence of characters
StrOf(v) ==
    CASE v.t = "none" -> <<"N", "o", "n", "e">>
      [] v.t = "str" -> v.s
      [] v.t = "int" -> IF v.k < 0 THEN <<"-">> \o Decimal(-v.k) ELSE Decimal(v.k)
      [] v.t = "float_nan" -> <<"n", "a", "n">>
      [] v.t = "list" -> <<"[", "]">>

\* bool(v): the truth value Python gives v in a condition
Truthy(v) ==
    CASE v.t = "none" -> FALSE
      [] v.t = "str" -> Len(v.s) > 0
      [] v.t = "int" -> v.k # 0
      [] v.t = "float_nan" -> TRUE
      [] v.t = "list" -> FALSE

(***************************************************************************)
(* JobScraper.__init__: the keyword list.                                  *)
(***************************************************************************)
veteran_keywords ==
    << <<"v", "e", "t", "e", "r", "a", "n">>,
       <<"m", "i", "l", "i", "t", "a", "r", "y">>,
       <<"c", "l", "e", "a", "r", "a", "n", "c", "e">>,
       <<"s", "e", "c", "u", "r", "i", "t", "y", " ", "c", "l", "e", "a", "r", "a", "n", "c", "e">>,
       <<"v", "e", "t", "e", "r", "a", "n", " ", "f", "r", "i", "e", "n", "d", "l", "y">>,
       <<"m", "i", "l", "i", "t", "a", "r", "y", " ", "e", "x", "p", "e", "r", "i", "e", "n", "c", "e">>,
       <<"v", "e", "t", "e", "r", "a", "n", " ", "p", "r", "e", "f", "e", "r", "r", "e", "d">>,
       <<"f", "o", "r", "m", "e", "r", " ", "m", "i", "l", "i", "t", "a", "r", "y">>,
       <<"e", "x", "-", "m", "i", "l", "i", "t", "a", "r", "y">>,
       <<"m", "i", "l", "i", "t", "a", "r", "y", " ", "b", "a", "c", "k", "g", "r", "o", "u", "n", "d">>,
       <<"v", "e", "t", "e", "r", "a", "n", " ", "h", "i", "r", "i", "n", "g">>,
       <<"m", "i", "l", "i", "t", "a", "r", "y", " ", "t", "r", "a", "n", "s", "i", "t", "i", "o", "n">>,
       <<"v", "e", "t", "e", "r", "a", "n", " ", "o", "w", "n", "e", "d">> >>

\* has_veteran_keywords returning at its first match
has_veteran_keywords_first(text) ==
    IF ~Truthy(text) \/ ~IsStr(text) THEN << >>
    ELSE LET text_lower == Lower(text.s)
             Found(keyword) == Contains(text_lower, Lower(keyword))
         IN Slice(SelectSeq(veteran_keywords, Found), 1)

\* JobScraper.has_veteran_keywords
has_veteran_keywords(text) ==
    IF ~Truthy(text) \/ ~IsStr(text) THEN << >>
    ELSE LET text_lower == Lower(text.s)
             Found(keyword) == Contains(text_lower, Lower(keyword))
         IN SelectSeq(veteran_keywords, Found)

(***************************************************************************)
(* JobScraper.process_jobs: one raw record to one canonical record.        *)
(***************************************************************************)
EmptyStr == PyStr(<< >>)
Unknown == PyStr(<<"U", "n", "k", "n", "o", "w", "n">>)
unknown == PyStr(<<"u", "n", "k", "n", "o", "w", "n">>)
full_time == PyStr(<<"f", "u", "l", "l", "-", "t", "i", "m", "e">>)
nan == <<"n", "a", "n">>

\* str(x) as a Python value
str(v) == PyStr(StrOf(v))

\* datetime.isoformat(): the text of a clock reading, one text per reading
isoformat(ticks) == [t |-> "str", iso |-> ticks]

\* the clock reading an isoformat text stands for
fromisoformat(v) == v.iso

\* timedelta(days=d), in clock ticks
timedelta(days) == days * TicksPerDay

title_keywords(job) == has_veteran_keywords(Get(job, "title", EmptyStr))

desc_keywords(job) == has_veteran_keywords(Get(job, "description", EmptyStr))

\* set(title_keywords + desc_keywords)
keyword_set(job) == Range(title_keywords(job) \o desc_keywords(job))

\* list(S): the elements of S, each once, in an order the language does not fix
ListOfSet(S) ==
    {s \in [1..Cardinality(S) -> S] : Range(s) = S}

\* is_veteran_friendly asking for more than one keyword
is_veteran_friendly_strict(all_keywords) == Len(all_keywords) > 1

is_veteran_friendly(all_keywords) == Len(all_keywords) > 0

description(job) ==
    LET d == Get(job, "description", EmptyStr)
    IN IF ~IsStr(d)
       THEN (IF d # PyNone THEN StrOf(d) ELSE << >>)
       ELSE d.s

\* salary comparing the string form with "nan" without lower-casing it
salary_exact(job, key) ==
    IF StrOf(Get1(job, key)) # nan THEN Get1(job, key) ELSE PyNone

salary(job, key) ==
    IF Lower(StrOf(Get1(job, key))) # nan THEN Get1(job, key) ELSE PyNone

url(job) == str(Get(job, "job_url_direct", Get(job, "job_url", EmptyStr)))

\* str(job.get(key)) if job.get(key) else None
passthrough(job, key) ==
    IF Truthy(Get1(job, key)) THEN str(Get1(job, key)) ELSE PyNone

scraped_date(t1) == isoformat(t1)

\* t2 is the clock reading of the second datetime.now()
expires_on(t1, t2) == isoformat(t2 + timedelta(EXPIRY_DAYS))

\* the dict literal of the loop body; t1, t2 are the two clock readings and
\* all_keywords the order list(set(...)) produced
processed_job(job, t1, t2, all_keywords) ==
    [ title |-> str(Get(job, "title", Unknown)),
      company |-> str(Get(job, "company", Unknown)),
      location |-> str(Get(job, "location", Unknown)),
      job_type |-> str(Get(job, "job_type", full_time)),
      salary_min |-> salary(job, "min_amount"),
      salary_max |-> salary(job, "max_amount"),
      description |-> PyStr(Slice(description(job), DESCRIPTION_LIMIT)),
      url |-> url(job),
      source |-> str(Get(job, "site", unknown)),
      veteran_keywords |-> all_keywords,
      is_veteran_friendly |-> is_veteran_friendly(all_keywords),
      scraped_date |-> scraped_date(t1),
      expires_on |-> expires_on(t1, t2),
      metadata |-> [ date_posted |-> passthrough(job, "date_posted"),
                     compensation |-> passthrough(job, "compensation"),
                     benefits |-> passthrough(job, "benefits"),
                     veteran_friendly |-> is_veteran_friendly(all_keywords) ] ]

(***************************************************************************)
(* Raw records the retrieval capability may hand to process_jobs.          *)
(***************************************************************************)
RawEmpty == << >>

RawFull ==
    [ title |-> PyStr(<<"S", "e", "n", "i", "o", "r", " ", "V", "e", "t", "e", "r", "a", "n", " ", "O", "u", "t", "r", "e", "a", "c", "h", " ", "L", "e", "a", "d">>),
      company |-> PyStr(<<"A", "c", "m", "e">>),
      location |-> PyStr(<<"R", "e", "m", "o", "t", "e">>),
      job_type |-> PyStr(<<"c", "o", "n", "t", "r", "a", "c", "t">>),
      min_amount |-> PyInt(50000),
      max_amount |-> PyNaN,
      description |-> PyStr(<<"v", "e", "t", "e", "r", "a", "n", " ", "h", "i", "r", "i", "n", "g", " ", "e", "v", "e", "n", "t">>),
      job_url_direct |-> PyStr(<<"d", ".", "i", "o", "/", "1">>),
      job_url |-> PyStr(<<"g", ".", "i", "o", "/", "1">>),
      site |-> PyStr(<<"i", "n", "d", "e", "e", "d">>),
      date_posted |-> PyStr(<<"2", "0", "2", "4", "-", "0", "1", "-", "0", "5">>),
      compensation |-> PyInt(0),
      benefits |-> EmptyStr ]

RawNulls ==
    [ title |-> PyNone, company |-> PyNone, location |-> PyNone,
      job_type |-> PyNone, min_amount |-> PyNone, max_amount |-> PyNone,
      description |-> PyNone, job_url_direct |-> PyNone,
      job_url |-> PyStr(<<"g", ".", "i", "o", "/", "2">>),
      site |-> PyNone, date_posted |-> PyNone, compensation |-> PyNone,
      benefits |-> PyNone ]

RawGeneric ==
    [ title |-> PyStr(<<"N", "u", "r", "s", "e">>),
      description |-> PyStr(<<"S", "e", "c", "u", "r", "i", "t", "y", " ", "C", "l", "e", "a", "r", "a", "n", "c", "e", " ", "r", "e", "q", "u", "i", "r", "e", "d">>),
      min_amount |-> PyStr(<<"N", "a", "N">>),
      job_url |-> PyStr(<<"g", ".", "i", "o", "/", "3">>),
      date_posted |-> PyInt(0) ]

RawOdd ==
    [ title |-> PyInt(0),
      description |-> PyInt(7),
      max_amount |-> PyStr(<<"n", "a", "n">>),
      job_url_direct |-> EmptyStr,
      job_url |-> PyStr(<<"g", ".", "i", "o", "/", "4">>),
      site |-> PyStr(<<"l", "i", "n", "k", "e", "d", "i", "n">>),
      compensation |-> PyInt(12),
      benefits |-> PyEmptyList ]

RawNoLink ==
    [ title |-> PyStr(<<"M", "i", "l", "i", "t", "a", "r", "y", " ", "A", "n", "a", "l", "y", "s", "t">>),
      job_url |-> PyNone,
      benefits |-> PyStr(<<"4", "0", "1", "k">>) ]

RawSamples == {RawEmpty, RawFull, RawNulls, RawGeneric, RawOdd, RawNoLink}

\* a description of the given length, its first character unlike the others
LongText(len) == [k \in 1..len |-> IF k = 1 THEN "#" ELSE LOWER[(k % 26) + 1]]

\* raw records whose description is absent, None, not a str, a short str, or
\* a str about DESCRIPTION_LIMIT characters long
DescSamples ==
    {RawEmpty, RawNulls, RawGeneric, RawOdd,
     [description |-> EmptyStr], [description |-> PyNaN],
     [description |-> PyEmptyList]}
    \cup {[description |-> PyStr(LongText(len))] :
             len \in (DESCRIPTION_LIMIT - MaxOver)..(DESCRIPTION_LIMIT + MaxOver)}

RECURSIVE SeqsUpTo(_, _)
\* the sequences over S of length at most len
SeqsUpTo(S, len) ==
    IF len = 0 THEN {<< >>}
    ELSE LET shorter == SeqsUpTo(S, len - 1)
         IN shorter \cup {Append(q, x) : q \in shorter, x \in S}

(***************************************************************************)
(* JobScraper.__init__: the lists and the configuration.  The model takes  *)
(* prefixes of the lists up to MaxList and every max_* up to MaxList.      *)
(***************************************************************************)
SEARCH_TERMS ==
    <<"software engineer", "full stack developer", "frontend developer",
      "backend developer", "devops engineer", "data scientist">>

LOCATIONS ==
    <<"United States", "Canada", "United Kingdom", "Australia",
      "New Zealand", "Ireland">>

Configs ==
    [ max_search_terms : 0..MaxList,
      max_locations : 0..MaxList,
      retry_attempts : 1..MaxRetry,
      delay_between_requests : {DELAY_BETWEEN_REQUESTS} ]

(***************************************************************************)
(* What the process writes, and the calls it makes to its collaborators.   *)
(***************************************************************************)
MsgImportError == [msg |-> "JobSpy import error"]
MsgMatrix(terms, locs) == [msg |-> "Scraping matrix", terms |-> terms, locations |-> locs]
MsgAttempt(term, loc, a) == [msg |-> "Scraping", term |-> term, location |-> loc, attempt |-> a]
MsgSuccess(count) == [msg |-> "Successfully scraped", count |-> count]
MsgNoJobs(term, loc) == [msg |-> "No jobs found", term |-> term, location |-> loc]
MsgError(term, loc, a) == [msg |-> "Error scraping", term |-> term, location |-> loc, attempt |-> a]
MsgMaxRetries(term, loc) == [msg |-> "Max retries reached", term |-> term, location |-> loc]

\* json.dumps(jobs, indent=2): the text of one JSON array
json_dumps(payload) == [msg |-> "json", payload |-> payload]

CallSleep(secs) == [fn |-> "sleep", secs |-> secs]
CallScrape(term, loc, a, outcome, returned) ==
    [fn |-> "scrape_jobs", search_term |-> term, location |-> loc,
     attempt |-> a, outcome |-> outcome, returned |-> returned]

\* the records a successful retrieval returns: count records, each its own
Retrieved(term, loc, a, count) ==
    [k \in 1..count |-> [id |-> <<term, loc, a, k>>]]

(***************************************************************************)
(* JobScraper.scrape_jobs_jobspy                                           *)
(***************************************************************************)
search_term == search_terms_to_use[i + 1]
location == locations_to_use[j + 1]

\* should_pace looking at the inner index only
should_pace_inner == j > 0

\* if i > 0 or j > 0
should_pace == i > 0 \/ j > 0

\* retries_exhausted one attempt late
retries_exhausted_late == attempt = scraping_config.retry_attempts

\* if attempt == config["retry_attempts"] - 1
retries_exhausted == attempt = scraping_config.retry_attempts - 1

\* extend assigning the new records instead of appending them
extend_replace(lst, job_list) == job_list

\* all_jobs.extend(job_list)
extend(lst, job_list) == lst \o job_list

\* NextCell with the two loops nested the other way round
NextCell_locationMajor ==
    IF i + 1 < Len(search_terms_to_use)
    THEN i' = i + 1 /\ j' = j /\ pc' = "cell"
    ELSE IF j + 1 < Len(locations_to_use)
         THEN j' = j + 1 /\ i' = 0 /\ pc' = "cell"
         ELSE i' = i /\ j' = j /\ pc' = "scraped"

\* the two for loops move on to the next cell, or fall through to the return
NextCell ==
    IF j + 1 < Len(locations_to_use)
    THEN j' = j + 1 /\ i' = i /\ pc' = "cell"
    ELSE IF i + 1 < Len(search_terms_to_use)
         THEN i' = i + 1 /\ j' = 0 /\ pc' = "cell"
         ELSE i' = i /\ j' = j /\ pc' = "scraped"

\* lines 114-124: the locals, the matrix message, entry of the loops
ScrapeBegin ==
    /\ pc = "main" /\ JOBSPY_AVAILABLE
    /\ LET terms == Slice(search_terms, scraping_config.max_search_terms)
           locs == Slice(locations, scraping_config.max_locations)
       IN /\ search_terms_to_use' = terms
          /\ locations_to_use' = locs
          /\ stdout' = Append(stdout, MsgMatrix(Len(terms), Len(locs)))
          /\ pc' = IF Len(terms) > 0 /\ Len(locs) > 0 THEN "cell" ELSE "scraped"
    /\ all_jobs' = << >>
    /\ i' = 0 /\ j' = 0
    /\ UNCHANGED <<JOBSPY_AVAILABLE, search_terms, locations, scraping_config,
                   attempt, stderr, calls, jobs, status>>
    /\ UNCHANGED pipeVars

\* lines 125-129: top of the body of the inner loop, the pacing pause
Pace ==
    /\ pc = "cell"
    /\ calls' = IF should_pace
                THEN Append(calls, CallSleep(scraping_config.delay_between_requests))
                ELSE calls
    /\ attempt' = 0
    /\ pc' = "attempt"
    /\ UNCHANGED <<JOBSPY_AVAILABLE, search_terms, locations, scraping_config,
                   search_terms_to_use, locations_to_use, i, j, all_jobs,
                   stdout, stderr, jobs, status>>
    /\ UNCHANGED pipeVars

\* the sizes of a non-empty retrieval result: one record, MaxRecs records
RecCounts == {1, MaxRecs}

\* lines 145-162: an attempt whose retrieval returns count > 0 records
AttemptSuccess ==
    /\ pc = "attempt"
    /\ \E count \in RecCounts :
         LET job_list == Retrieved(search_term, location, attempt, count)
         IN /\ calls' = Append(calls, CallScrape(search_term, location, attempt,
                                                 "records", job_list))
            /\ all_jobs' = extend(all_jobs, job_list)
            /\ stdout' = stdout \o <<MsgAttempt(search_term, location, attempt + 1),
                                     MsgSuccess(Len(job_list))>>
    /\ NextCell
    /\ UNCHANGED <<JOBSPY_AVAILABLE, search_terms, locations, scraping_config,
                   search_terms_to_use, locations_to_use, attempt, stderr,
                   jobs, status>>
    /\ UNCHANGED pipeVars

\* AttemptEmpty without its break: an empty result goes on to the next attempt
AttemptEmpty_retried ==
    /\ pc = "attempt"
    /\ calls' = Append(calls, CallScrape(search_term, location, attempt, "empty", << >>))
    /\ stdout' = stdout \o <<MsgAttempt(search_term, location, attempt + 1),
                             MsgNoJobs(search_term, location)>>
    /\ IF retries_exhausted
       THEN NextCell /\ attempt' = attempt
       ELSE attempt' = attempt + 1 /\ UNCHANGED <<pc, i, j>>
    /\ UNCHANGED <<JOBSPY_AVAILABLE, search_terms, locations, scraping_config,
                   search_terms_to_use, locations_to_use, all_jobs,
                   stderr, jobs, status>>
    /\ UNCHANGED pipeVars

\* lines 145-165: an attempt whose retrieval returns None or nothing
AttemptEmpty ==
    /\ pc = "attempt"
    /\ calls' = Append(calls, CallScrape(search_term, location, attempt, "empty", << >>))
    /\ stdout' = stdout \o <<MsgAttempt(search_term, location, attempt + 1),
                             MsgNoJobs(search_term, location)>>
    /\ NextCell
    /\ UNCHANGED <<JOBSPY_AVAILABLE, search_terms, locations, scraping_config,
                   search_terms_to_use, locations_to_use, attempt, all_jobs,
                   stderr, jobs, status>>
    /\ UNCHANGED pipeVars

\* lines 145-172: an attempt whose retrieval raises, with attempts left
AttemptFailRetry ==
    /\ pc = "attempt"
    /\ ~retries_exhausted
    /\ calls' = calls \o <<CallScrape(search_term, location, attempt, "raise", << >>),
                           CallSleep(RETRY_BACKOFF)>>
    /\ stdout' = Append(stdout, MsgAttempt(search_term, location, attempt + 1))
    /\ stderr' = Append(stderr, MsgError(search_term, location, attempt + 1))
    /\ attempt' = attempt + 1
    /\ UNCHANGED <<JOBSPY_AVAILABLE, search_terms, locations, scraping_config,
                   pc, search_terms_to_use, locations_to_use, i, j, all_jobs,
                   jobs, status>>
    /\ UNCHANGED pipeVars

\* AttemptFailExhausted with the handler missing on the last attempt: the
\* exception of the retrieval leaves scrape_jobs_jobspy and main
AttemptFailExhausted_propagates ==
    /\ pc = "attempt"
    /\ retries_exhausted
    /\ calls' = Append(calls, CallScrape(search_term, location, attempt, "raise", << >>))
    /\ stdout' = Append(stdout, MsgAttempt(search_term, location, attempt + 1))
    /\ status' = "raised"
    /\ pc' = "done"
    /\ UNCHANGED <<JOBSPY_AVAILABLE, search_terms, locations, scraping_config,
                   search_terms_to_use, locations_to_use, i, j, attempt, all_jobs,
                   stderr, jobs>>
    /\ UNCHANGED pipeVars

\* AttemptFailExhausted sleeping the backoff after the last attempt too
AttemptFailExhausted_sleeps ==
    /\ pc = "attempt"
    /\ retries_exhausted
    /\ calls' = calls \o <<CallScrape(search_term, location, attempt, "raise", << >>),
                           CallSleep(RETRY_BACKOFF)>>
    /\ stdout' = Append(stdout, MsgAttempt(search_term, location, attempt + 1))
    /\ stderr' = stderr \o <<MsgError(search_term, location, attempt + 1),
                             MsgMaxRetries(search_term, location)>>
    /\ NextCell
    /\ UNCHANGED <<JOBSPY_AVAILABLE, search_terms, locations, scraping_config,
                   search_terms_to_use, locations_to_use, attempt, all_jobs,
                   jobs, status>>
    /\ UNCHANGED pipeVars

\* lines 145-170: an attempt whose retrieval raises, the last one of the cell
AttemptFailExhausted ==
    /\ pc = "attempt"
    /\ retries_exhausted
    /\ calls' = Append(calls, CallScrape(search_term, location, attempt, "raise", << >>))
    /\ stdout' = Append(stdout, MsgAttempt(search_term, location, attempt + 1))
    /\ stderr' = stderr \o <<MsgError(search_term, location, attempt + 1),
                             MsgMaxRetries(search_term, location)>>
    /\ NextCell
    /\ UNCHANGED <<JOBSPY_AVAILABLE, search_terms, locations, scraping_config,
                   search_terms_to_use, locations_to_use, attempt, all_jobs,
                   jobs, status>>
    /\ UNCHANGED pipeVars

(***************************************************************************)
(* JobScraper.process_jobs, one iteration of its loop per step.            *)
(***************************************************************************)
\* ProcessOne keeping only the records with a veteran keyword
ProcessOne_filtered ==
    /\ ppc = "loop"
    /\ n < Len(raw_jobs)
    /\ LET job == raw_jobs[n + 1]
       IN \E d \in 0..MaxTick :
            \E all_keywords \in ListOfSet(keyword_set(job)) :
               /\ processed_jobs' =
                      IF all_keywords # << >>
                      THEN Append(processed_jobs,
                               processed_job(job, now + d, now + 2 * d, all_keywords))
                      ELSE processed_jobs
               /\ now' = now + 2 * d
    /\ n' = n + 1
    /\ UNCHANGED <<raw_jobs, ppc, earlier>>
    /\ UNCHANGED orchVars

\* ProcessOne taking the description out of the raw record (dict.pop for get)
ProcessOne_consuming ==
    /\ ppc = "loop"
    /\ n < Len(raw_jobs)
    /\ LET job == raw_jobs[n + 1]
       IN /\ \E d \in 0..MaxTick :
               \E all_keywords \in ListOfSet(keyword_set(job)) :
                  /\ processed_jobs' = Append(processed_jobs,
                         processed_job(job, now + d, now + 2 * d, all_keywords))
                  /\ now' = now + 2 * d
          /\ raw_jobs' = [raw_jobs EXCEPT ![n + 1] =
                             [key \in DOMAIN job \ {"description"} |-> job[key]]]
    /\ n' = n + 1
    /\ UNCHANGED <<ppc, earlier>>
    /\ UNCHANGED orchVars

\* lines 180-216: the body of the loop for the next raw record.  The clock
\* advances d before each of the two datetime.now() readings.
ProcessOne ==
    /\ ppc = "loop"
    /\ n < Len(raw_jobs)
    /\ LET job == raw_jobs[n + 1]
       IN \E d \in 0..MaxTick :
            \E all_keywords \in ListOfSet(keyword_set(job)) :
               /\ processed_jobs' = Append(processed_jobs,
                      processed_job(job, now + d, now + 2 * d, all_keywords))
               /\ now' = now + 2 * d
    /\ n' = n + 1
    /\ UNCHANGED <<raw_jobs, ppc, earlier>>
    /\ UNCHANGED orchVars

\* line 218: return processed_jobs
ProcessReturn ==
    /\ ppc = "loop"
    /\ n = Len(raw_jobs)
    /\ ppc' = "returned"
    /\ UNCHANGED <<raw_jobs, processed_jobs, n, now, earlier>>
    /\ UNCHANGED orchVars

\* lines 176-178: process_jobs is called once more on the raw_jobs it was
\* given before; the caller keeps what the earlier call returned
ProcessAgain ==
    /\ ppc = "returned"
    /\ earlier = << >>
    /\ earlier' = Append(earlier, processed_jobs)
    /\ processed_jobs' = << >>
    /\ n' = 0
    /\ ppc' = "loop"
    /\ UNCHANGED <<raw_jobs, now>>
    /\ UNCHANGED orchVars

\* process_jobs as one call: the clock advances d before every reading, and
\* list(set(...)) takes one of its orders
process_jobs(raw, t0, d) ==
    [k \in 1..Len(raw) |->
        processed_job(raw[k], t0 + (2 * k - 1) * d, t0 + 2 * k * d,
                      CHOOSE all_keywords \in ListOfSet(keyword_set(raw[k])) : TRUE)]

(***************************************************************************)
(* JobScraper.run_scraping and main                                        *)
(***************************************************************************)
\* MainUnavailable leaving the process with an error exit and no output
MainUnavailable_exits ==
    /\ pc = "main" /\ ~JOBSPY_AVAILABLE
    /\ status' = "exit1"
    /\ pc' = "done"
    /\ UNCHANGED <<JOBSPY_AVAILABLE, search_terms, locations, scraping_config,
                   search_terms_to_use, locations_to_use, i, j, attempt,
                   all_jobs, stdout, stderr, calls, jobs>>
    /\ UNCHANGED pipeVars

\* lines 222-224, 247: the retrieval capability is unavailable
MainUnavailable ==
    /\ pc = "main" /\ ~JOBSPY_AVAILABLE
    /\ jobs' = << >>
    /\ stdout' = Append(stdout, json_dumps(<< >>))
    /\ status' = "exit0"
    /\ pc' = "done"
    /\ UNCHANGED <<JOBSPY_AVAILABLE, search_terms, locations, scraping_config,
                   search_terms_to_use, locations_to_use, i, j, attempt,
                   all_jobs, stderr, calls>>
    /\ UNCHANGED pipeVars

\* lines 229-230, 247: scrape_jobs_jobspy returned nothing
MainNoJobs ==
    /\ pc = "scraped" /\ all_jobs = << >>
    /\ jobs' = << >>
    /\ stdout' = Append(stdout, json_dumps(<< >>))
    /\ status' = "exit0"
    /\ pc' = "done"
    /\ UNCHANGED <<JOBSPY_AVAILABLE, search_terms, locations, scraping_config,
                   search_terms_to_use, locations_to_use, i, j, attempt,
                   all_jobs, stderr, calls>>
    /\ UNCHANGED pipeVars

\* lines 233-235, 247: the raw records are processed and printed.  Here the
\* clock advances one tick before every reading; PipeSpec takes every advance.
MainProcess ==
    /\ pc = "scraped" /\ all_jobs # << >>
    /\ processed_jobs' = process_jobs(all_jobs, now, 1)
    /\ now' = now + 2 * Len(all_jobs)
    /\ raw_jobs' = all_jobs
    /\ n' = Len(all_jobs)
    /\ ppc' = "returned"
    /\ jobs' = processed_jobs'
    /\ stdout' = Append(stdout, json_dumps(processed_jobs'))
    /\ status' = "exit0"
    /\ pc' = "done"
    /\ UNCHANGED <<JOBSPY_AVAILABLE, search_terms, locations, scraping_config,
                   search_terms_to_use, locations_to_use, i, j, attempt,
                   all_jobs, stderr, calls, earlier>>

(***************************************************************************)
(* Specifications                                                          *)
(***************************************************************************)
\* the cells of the matrix the configuration selects
MatrixSize(terms, locs, config) ==
    Min(Len(terms), config.max_search_terms) * Min(Len(locs), config.max_locations)

\* the lists the model starts from: empty, one entry, MaxList entries
ListLengths == {0, 1, MaxList}

Init ==
    /\ JOBSPY_AVAILABLE \in BOOLEAN
    /\ search_terms \in {SubSeq(SEARCH_TERMS, 1, len) : len \in ListLengths}
    /\ locations \in {SubSeq(LOCATIONS, 1, len) : len \in ListLengths}
    /\ scraping_config \in Configs
    /\ MatrixSize(search_terms, locations, scraping_config) <= MaxCells
    /\ pc = "main"
    /\ search_terms_to_use = << >> /\ locations_to_use = << >>
    /\ i = 0 /\ j = 0 /\ attempt = 0
    /\ all_jobs = << >>
    /\ stdout = << >>
    /\ stderr = IF JOBSPY_AVAILABLE THEN << >> ELSE <<MsgImportError>>
    /\ calls = << >>
    /\ jobs = << >>
    /\ status = "running"
    /\ raw_jobs = << >> /\ processed_jobs = << >> /\ n = 0 /\ now = 0
    /\ ppc = "idle"
    /\ earlier = << >>

Next ==
    \/ MainUnavailable
    \/ ScrapeBegin
    \/ Pace
    \/ AttemptSuccess
    \/ AttemptEmpty
    \/ AttemptFailRetry
    \/ AttemptFailExhausted
    \/ MainNoJobs
    \/ MainProcess

Spec == Init /\ [][Next]_vars

\* every call the run makes (a retrieval, a pause, a print) returns, so the
\* sequential program always takes its next step
FairSpec == Spec /\ WF_vars(Next)

\* process_jobs is entered with one of the given inputs
PipeStart(inputs) ==
    /\ JOBSPY_AVAILABLE = TRUE
    /\ search_terms = << >> /\ locations = << >>
    /\ scraping_config = [max_search_terms |-> 0, max_locations |-> 0,
                          retry_attempts |-> 1,
                          delay_between_requests |-> DELAY_BETWEEN_REQUESTS]
    /\ pc = "process_jobs"
    /\ search_terms_to_use = << >> /\ locations_to_use = << >>
    /\ i = 0 /\ j = 0 /\ attempt = 0
    /\ all_jobs = << >>
    /\ stdout = << >> /\ stderr = << >> /\ calls = << >>
    /\ jobs = << >>
    /\ status = "running"
    /\ raw_jobs \in inputs
    /\ processed_jobs = << >>
    /\ n = 0
    /\ now = 0
    /\ ppc = "loop"
    /\ earlier = << >>

PipeInit == PipeStart(SeqsUpTo(RawSamples, MaxJobs))

PipeNext ==
    \/ ProcessOne
    \/ ProcessReturn

PipeSpec == PipeInit /\ [][PipeNext]_vars

\* process_jobs on one raw record, over the kinds and lengths of description
DescInit == PipeStart({<<job>> : job \in DescSamples})

DescSpec == DescInit /\ [][PipeNext]_vars

\* inputs of the repeated call: every sample alone, two pairs, and no record
TwiceInputs ==
    {<<job>> : job \in RawSamples}
    \cup {<< >>, <<RawFull, RawOdd>>, <<RawGeneric, RawNulls>>}

TwiceInit == PipeStart(TwiceInputs)

TwiceNext ==
    \/ ProcessOne
    \/ ProcessReturn
    \/ ProcessAgain

\* process_jobs run twice on the same raw_jobs
TwiceSpec == TwiceInit /\ [][TwiceNext]_vars

(***************************************************************************)
(* Vocabulary of the properties.                                           *)
(***************************************************************************)
\* the retrieval calls made so far, in order
ScrapeCalls == SelectSeq(calls, LAMBDA c : c.fn = "scrape_jobs")

CellOf(c) == <<c.search_term, c.location>>

RECURSIVE Flatten(_)
Flatten(seqs) == IF seqs = << >> THEN << >> ELSE Head(seqs) \o Flatten(Tail(seqs))

\* the cells of the truncated matrix, term-major and location-minor
MatrixCells ==
    LET width == Len(locations_to_use)
    IN [k \in 1..(Len(search_terms_to_use) * width) |->
          <<search_terms_to_use[((k - 1) \div width) + 1],
            locations_to_use[((k - 1) % width) + 1]>>]

\* what the successful non-empty attempts of one cell returned, among calls sc
ReturnedFor(sc, cell) ==
    Flatten([k \in 1..Len(sc) |->
                IF CellOf(sc[k]) = cell /\ sc[k].outcome = "records"
                THEN sc[k].returned ELSE << >>])

\* some step of the loops of scrape_jobs_jobspy can be taken
LoopCanStep ==
    ENABLED (Pace \/ AttemptSuccess \/ AttemptEmpty \/ AttemptFailRetry
                  \/ AttemptFailExhausted)

\* the run of the orchestrator has left the loops
ScrapeReturned == JOBSPY_AVAILABLE /\ pc \in {"scraped", "done"}

\* the retry loop is still on the cell of retrieval call c
StillOn(c) == pc = "attempt" /\ CellOf(c) = <<search_term, location>>

(***************************************************************************)
(* Properties of the orchestrator and of main, checked under Spec.         *)
(***************************************************************************)

\* C1: whatever the retrieval outcomes, scrape_jobs_jobspy never raises and
\* its loops never stop before the return; once it has returned, every cell of the
\* matrix has been attempted and the accumulator is exactly the
\* concatenation, in cell order, of what each cell's successful non-empty
\* attempt returned (a cell whose attempts all failed contributes nothing).
C1_ConcatenationInCellOrder ==
    /\ status # "raised"
    /\ pc \in {"cell", "attempt"} => LoopCanStep
    /\ ScrapeReturned =>
         LET sc == ScrapeCalls
             cells == MatrixCells
         IN /\ \A k \in 1..Len(cells) :
                  \E c \in 1..Len(sc) : CellOf(sc[c]) = cells[k]
            /\ all_jobs = Flatten([k \in 1..Len(cells) |-> ReturnedFor(sc, cells[k])])

\* C1 witness: a 2 x 2 matrix with retry_attempts = 2 whose first cell failed
\* on both attempts and whose three other cells returned MaxRecs records each.
C1_Witness ==
    /\ ScrapeReturned
    /\ Len(MatrixCells) = 4
    /\ scraping_config.retry_attempts = 2
    /\ Len(ScrapeCalls) = 5
    /\ \A c \in 1..2 : /\ CellOf(ScrapeCalls[c]) = MatrixCells[1]
                       /\ ScrapeCalls[c].outcome = "raise"
    /\ \A c \in 3..5 : Len(ScrapeCalls[c].returned) = MaxRecs
    /\ Len(all_jobs) = 3 * MaxRecs

\* C2: the attempts of a cell are numbered from 0 without gaps and stay below
\* retry_attempts; an attempt that does not fail, empty or not, is the last
\* one of its cell; and a cell the run has left after a failed attempt was
\* attempted exactly retry_attempts times.
C2_RetryLoop ==
    LET sc == ScrapeCalls
    IN \A p \in 1..Len(sc) :
          /\ sc[p].attempt < scraping_config.retry_attempts
          /\ sc[p].attempt = Cardinality({q \in 1..(p - 1) : CellOf(sc[q]) = CellOf(sc[p])})
          /\ sc[p].outcome # "raise" =>
                /\ \A q \in (p + 1)..Len(sc) : CellOf(sc[q]) # CellOf(sc[p])
                /\ ~StillOn(sc[p])
          /\ ( /\ sc[p].outcome = "raise"
               /\ p < Len(sc) => CellOf(sc[p + 1]) # CellOf(sc[p])
               /\ p = Len(sc) => ~StillOn(sc[p]) )
             => sc[p].attempt = scraping_config.retry_attempts - 1

\* C2 witness: the run has left one cell after an empty first attempt that
\* was not retried although attempts remained, and another cell after
\* retry_attempts failed attempts.
C2_Witness ==
    /\ pc = "cell"
    /\ scraping_config.retry_attempts = 2
    /\ Len(ScrapeCalls) = 3
    /\ ScrapeCalls[1].outcome = "empty" /\ ScrapeCalls[1].attempt = 0
    /\ ScrapeCalls[2].outcome = "raise" /\ ScrapeCalls[3].outcome = "raise"
    /\ CellOf(ScrapeCalls[2]) = CellOf(ScrapeCalls[3])

\* C3: standard output never holds anything but the JSON array: nothing is
\* written to it before main prints, and once main has returned it holds
\* exactly the one JSON text of the canonical records.
C3_StdoutIsOnlyTheJsonArray ==
    /\ \A k \in 1..Len(stdout) : stdout[k].msg = "json"
    /\ status = "exit0" => stdout = <<json_dumps(jobs)>>

\* C4: when the retrieval capability is unavailable, and when no retrieval
\* call returned a record, run_scraping returns the empty sequence and main
\* prints the empty JSON array, once, and returns normally; when it is
\* unavailable no retrieval call and no pause is ever made and the empty
\* array is all that standard output holds.
C4_EmptyResultDegrades ==
    /\ status \in {"running", "exit0"}
    /\ pc = "done" =>
          /\ status = "exit0"
          /\ LET sc == ScrapeCalls
             IN ( \/ ~JOBSPY_AVAILABLE
                  \/ \A c \in 1..Len(sc) : sc[c].outcome # "records" )
                => /\ jobs = << >>
                   /\ stdout[Len(stdout)] = json_dumps(<< >>)
                   /\ Cardinality({k \in 1..Len(stdout) : stdout[k].msg = "json"}) = 1
    /\ ~JOBSPY_AVAILABLE =>
          /\ calls = << >>
          /\ pc = "done" => stdout = <<json_dumps(<< >>)>>

\* C4 witness: main has returned after a run in which one cell failed on
\* every attempt and another returned nothing.
C4_Witness ==
    /\ pc = "done" /\ JOBSPY_AVAILABLE
    /\ \E c \in 1..Len(ScrapeCalls) : ScrapeCalls[c].outcome = "empty"
    /\ \E c \in 1..Len(ScrapeCalls) :
          /\ ScrapeCalls[c].outcome = "raise"
          /\ ScrapeCalls[c].attempt = scraping_config.retry_attempts - 1
    /\ \A c \in 1..Len(ScrapeCalls) : ScrapeCalls[c].outcome # "records"
    /\ jobs = << >>

\* C5: if the search-term list or the location list is empty once cut to
\* max_search_terms and max_locations, the retrieval capability is never
\* invoked and scrape_jobs_jobspy returns the empty sequence.
C5_EmptyMatrixNoRetrieval ==
    ( \/ Min(Len(search_terms), scraping_config.max_search_terms) = 0
      \/ Min(Len(locations), scraping_config.max_locations) = 0 )
    => /\ ScrapeCalls = << >>
       /\ pc \in {"main", "scraped", "done"}
       /\ ScrapeReturned => all_jobs = << >>

\* C5 witness: the orchestrator has returned for a non-empty list of terms
\* cut to nothing by max_search_terms = 0, with locations left.
C5_Witness ==
    /\ JOBSPY_AVAILABLE /\ pc = "scraped"
    /\ Len(search_terms) > 0 /\ scraping_config.max_search_terms = 0
    /\ Len(locations_to_use) > 0
    /\ all_jobs = << >>

(***************************************************************************)
(* Properties of process_jobs, checked under PipeSpec.                     *)
(***************************************************************************)
\* a canonical record with its two timestamps blanked and its keywords as a set
Masked(rec) ==
    [rec EXCEPT !.scraped_date = PyNone, !.expires_on = PyNone,
                !.veteran_keywords = Range(rec.veteran_keywords)]

\* rec is what the loop body makes of raw, at some clock readings
DerivedFrom(rec, raw) ==
    \E all_keywords \in ListOfSet(keyword_set(raw)) :
        Masked(rec) = Masked(processed_job(raw, 0, 0, all_keywords))

\* the raw record has the key, with a value other than None
Carries(job, key) == key \in DOMAIN job /\ job[key] # PyNone

\* C6: process_jobs emits one canonical record per raw record handled, the
\* k-th derived from the k-th raw record, and returns as many records as it
\* was given: none dropped, filtered, duplicated or reordered.
C6_OneRecordPerRawInOrder ==
    /\ Len(processed_jobs) = n
    /\ \A k \in 1..Len(processed_jobs) : DerivedFrom(processed_jobs[k], raw_jobs[k])
    /\ ppc = "returned" => Len(processed_jobs) = Len(raw_jobs)

\* C6 witness: process_jobs has returned for two different raw records, the
\* first with a veteran keyword and the second with none.
C6_Witness ==
    /\ ppc = "returned"
    /\ Len(raw_jobs) = 2
    /\ raw_jobs[1] # raw_jobs[2]
    /\ keyword_set(raw_jobs[1]) # {} /\ keyword_set(raw_jobs[2]) = {}
    /\ Len(processed_jobs) = 2

\* C7: in every canonical record expires_on is exactly 30 days after
\* scraped_date.
C7_ExpiryThirtyDaysAfterScrape ==
    \A k \in 1..Len(processed_jobs) :
        fromisoformat(processed_jobs[k].expires_on)
          - fromisoformat(processed_jobs[k].scraped_date) = timedelta(EXPIRY_DAYS)

MetadataFields == {"date_posted", "compensation", "benefits"}

\* C8: a metadata passthrough field is null exactly when the raw field is
\* missing or None, and the string form of the raw value otherwise.
C8_PassthroughNullOnlyWhenAbsent ==
    \A k \in 1..Len(processed_jobs) : \A key \in MetadataFields :
        processed_jobs[k].metadata[key] =
            IF Carries(raw_jobs[k], key) THEN str(raw_jobs[k][key]) ELSE PyNone

\* C9: in every canonical record is_veteran_friendly is true exactly when
\* veteran_keywords is non-empty, and metadata.veteran_friendly equals it.
C9_IndicatorMatchesKeywords ==
    \A k \in 1..Len(processed_jobs) :
        /\ processed_jobs[k].is_veteran_friendly
             = (processed_jobs[k].veteran_keywords # << >>)
        /\ processed_jobs[k].metadata.veteran_friendly
             = processed_jobs[k].is_veteran_friendly

\* C9 witness: a record with one keyword and a record with none, both done.
C9_Witness ==
    \E k1, k2 \in 1..Len(processed_jobs) :
        /\ Len(processed_jobs[k1].veteran_keywords) = 1
        /\ processed_jobs[k1].is_veteran_friendly
        /\ processed_jobs[k2].veteran_keywords = << >>
        /\ ~processed_jobs[k2].metadata.veteran_friendly

\* C10: the canonical url is the direct link when the raw record carries
\* one, else the generic link when it carries one, else the empty string.
C10_UrlPrefersDirectThenGeneric ==
    \A k \in 1..Len(processed_jobs) :
        processed_jobs[k].url =
            IF Carries(raw_jobs[k], "job_url_direct") THEN str(raw_jobs[k].job_url_direct)
            ELSE IF Carries(raw_jobs[k], "job_url") THEN str(raw_jobs[k].job_url)
            ELSE EmptyStr

\* the text spells "nan" in some letter case
IsNanText(s) ==
    /\ Len(s) = 3
    /\ s[1] \in {"n", "N"} /\ s[2] \in {"a", "A"} /\ s[3] \in {"n", "N"}

SalaryFields == {<<"salary_min", "min_amount">>, <<"salary_max", "max_amount">>}

\* C11: salary_min and salary_max are null whenever the string form of the
\* raw min_amount / max_amount spells "nan" in any letter case and are the
\* raw value unchanged otherwise, so no canonical record carries the NaN
\* sentinel in any letter case.
C11_SalaryNanBecomesNull ==
    \A k \in 1..Len(processed_jobs) : \A f \in SalaryFields :
        LET raw == Get1(raw_jobs[k], f[2])
            out == processed_jobs[k][f[1]]
        IN /\ out = IF IsNanText(StrOf(raw)) THEN PyNone ELSE raw
           /\ out # PyNaN
           /\ ~IsNanText(StrOf(out))

\* C11 witness: processed records where a float nan, a "NaN" text and a
\* "nan" text were nulled and a numeric amount was kept.
C11_Witness ==
    \E k1, k2 \in 1..Len(processed_jobs) :
        /\ raw_jobs[k1] = RawFull
        /\ processed_jobs[k1].salary_min = PyInt(50000)
        /\ processed_jobs[k1].salary_max = PyNone
        /\ Get1(raw_jobs[k2], "min_amount") = PyStr(<<"N", "a", "N">>)
        /\ processed_jobs[k2].salary_min = PyNone

\* canonical field, raw key and documented default of the five text fields
TextFields ==
    { <<"title", "title", Unknown>>, <<"company", "company", Unknown>>,
      <<"location", "location", Unknown>>, <<"job_type", "job_type", full_time>>,
      <<"source", "site", unknown>> }

\* C12: title, company, location, job_type and source are always non-null
\* strings: the string form of the raw value when the raw record carries
\* one, and the documented default when the key is missing or its value is
\* None.
C12_TextFieldsDefaultWhenAbsent ==
    \A k \in 1..Len(processed_jobs) : \A f \in TextFields :
        /\ IsStr(processed_jobs[k][f[1]])
        /\ processed_jobs[k][f[1]] =
              IF Carries(raw_jobs[k], f[2]) THEN str(raw_jobs[k][f[2]]) ELSE f[3]

\* the keyword occurs in the value, letter case ignored; a value that is not
\* a str holds no keyword
Occurs(keyword, v) ==
    /\ IsStr(v)
    /\ \E off \in 0..(Len(v.s) - Len(keyword)) :
          \A m \in 1..Len(keyword) : LowerChar(v.s[off + m]) = LowerChar(keyword[m])

\* C13: veteran_keywords, as a set, is exactly the configured keywords that
\* occur, letter case ignored, in the raw title or the raw description; every
\* match is collected, a keyword matched in both fields appears once, and a
\* missing, None or non-string field contributes nothing.
C13_KeywordsAreExactlyTheMatches ==
    \A k \in 1..Len(processed_jobs) :
        LET kws == processed_jobs[k].veteran_keywords
            title == Get1(raw_jobs[k], "title")
            desc == Get1(raw_jobs[k], "description")
        IN /\ Range(kws) = {kw \in Range(veteran_keywords) :
                               Occurs(kw, title) \/ Occurs(kw, desc)}
           /\ \A a, b \in DOMAIN kws : kws[a] = kws[b] => a = b

\* C13 witness: one record whose description "Security Clearance required"
\* gave both "clearance" and "security clearance", and one whose title and
\* description both hold "veteran", listed once.
C13_Witness ==
    \E k1, k2 \in 1..Len(processed_jobs) :
        /\ raw_jobs[k1] = RawGeneric
        /\ Range(processed_jobs[k1].veteran_keywords)
             = {veteran_keywords[3], veteran_keywords[4]}
        /\ raw_jobs[k2] = RawFull
        /\ Occurs(veteran_keywords[1], RawFull.title)
        /\ Occurs(veteran_keywords[1], RawFull.description)
        /\ Len(SelectSeq(processed_jobs[k2].veteran_keywords,
                         LAMBDA kw : kw = veteran_keywords[1])) = 1

(***************************************************************************)
(* Properties of the description, checked under DescSpec.                  *)
(***************************************************************************)
\* C14: the canonical description is a string of at most 1000 characters:
\* the first 1000 characters of the raw description when that is a string,
\* of its string form when it is present but not a string, and the empty
\* string when it is absent or None.
C14_DescriptionTruncated ==
    \A k \in 1..Len(processed_jobs) :
        LET raw == raw_jobs[k]
            out == processed_jobs[k].description
            full == IF ~Carries(raw, "description") THEN << >>
                    ELSE IF IsStr(raw.description) THEN raw.description.s
                    ELSE StrOf(raw.description)
        IN /\ IsStr(out)
           /\ Len(out.s) <= DESCRIPTION_LIMIT
           /\ Len(out.s) = Min(Len(full), DESCRIPTION_LIMIT)
           /\ \A m \in 1..Len(out.s) : out.s[m] = full[m]

\* C14 witness: a raw description longer than the limit was cut to its
\* first 1000 characters.
C14_Witness ==
    /\ ppc = "returned"
    /\ Len(processed_jobs) = 1
    /\ IsStr(Get1(raw_jobs[1], "description"))
    /\ Len(raw_jobs[1].description.s) > DESCRIPTION_LIMIT
    /\ Len(processed_jobs[1].description.s) = DESCRIPTION_LIMIT
    /\ processed_jobs[1].description.s[1] = raw_jobs[1].description.s[1]

(***************************************************************************)
(* Properties of a repeated call, checked under TwiceSpec.                 *)
(***************************************************************************)
\* the records of the second call so far agree with those of the first call
SecondRunAgrees ==
    earlier # << >> =>
        /\ Len(processed_jobs) <= Len(earlier[1])
        /\ \A k \in 1..Len(processed_jobs) :
              LET first == earlier[1][k]
                  second == processed_jobs[k]
              IN /\ Range(second.veteran_keywords) = Range(first.veteran_keywords)
                 /\ second.is_veteran_friendly = first.is_veteran_friendly
                 /\ Masked(second) = Masked(first)
        /\ ppc = "returned" => Len(processed_jobs) = Len(earlier[1])

\* a step of process_jobs leaves its input and the scraper's configuration alone
InputAndConfigKept ==
    /\ raw_jobs' = raw_jobs
    /\ scraping_config' = scraping_config
    /\ search_terms' = search_terms
    /\ locations' = locations

\* C15: running process_jobs twice on the same raw input yields, record by
\* record, the same veteran_keywords (as sets), the same is_veteran_friendly
\* and the same coerced fields, the two timestamps aside; and no step of a
\* run changes the raw input or the scraper's configuration.
C15_ProcessJobsIdempotent ==
    [](SecondRunAgrees) /\ [][InputAndConfigKept]_vars

\* C15 witness: the second call has returned two records for the same input,
\* at later clock readings than the first call and with the keywords of a
\* record in another order.
C15_Witness ==
    /\ earlier # << >>
    /\ ppc = "returned"
    /\ Len(processed_jobs) = 2
    /\ processed_jobs[1].scraped_date # earlier[1][1].scraped_date
    /\ processed_jobs[1].veteran_keywords # earlier[1][1].veteran_keywords

(***************************************************************************)
(* Properties of the pauses, the order of the cells and the accumulator,   *)
(* checked under Spec.                                                     *)
(***************************************************************************)
IsScrape(c) == c.fn = "scrape_jobs"

\* the pause between two cells
IsPacing(c) == c = CallSleep(scraping_config.delay_between_requests)

\* the pause between two attempts of a cell
IsBackoff(c) == c = CallSleep(RETRY_BACKOFF)

\* C16: a pacing pause of delay_between_requests is taken exactly once before
\* the first attempt of every cell but the first, whatever the outcome of
\* the cell before; none is taken before the first cell, and none before a
\* retry.
C16_PacingOncePerLaterCell ==
    \A p \in 1..Len(calls) :
        /\ IsScrape(calls[p]) =>
              IF calls[p].attempt > 0 THEN ~IsPacing(calls[p - 1])
              ELSE IF CellOf(calls[p]) = MatrixCells[1] THEN p = 1
              ELSE /\ p > 2
                   /\ IsPacing(calls[p - 1])
                   /\ IsScrape(calls[p - 2])
        /\ IsPacing(calls[p]) =>
              /\ p > 1 /\ IsScrape(calls[p - 1])
              /\ p < Len(calls) => IsScrape(calls[p + 1]) /\ calls[p + 1].attempt = 0
              /\ p = Len(calls) => pc = "attempt" /\ attempt = 0

\* C16 witness: a 2 x 2 matrix whose first three cells ended with records,
\* with nothing, and with two failed attempts; each later cell was preceded
\* by one pacing pause, three in all.
C16_Witness ==
    LET sc == ScrapeCalls
    IN /\ pc = "scraped"
       /\ Len(MatrixCells) = 4
       /\ Len(sc) = 5
       /\ sc[1].outcome = "records" /\ sc[2].outcome = "empty"
       /\ sc[3].outcome = "raise" /\ sc[4].outcome = "raise"
       /\ CellOf(sc[5]) = MatrixCells[4]
       /\ Len(SelectSeq(calls, IsPacing)) = 3

\* retrieval call c failed and attempts of its cell remained
FailedWithAttemptsLeft(c) ==
    c.outcome = "raise" /\ c.attempt < scraping_config.retry_attempts - 1

\* C17: the fixed backoff pause is taken after a failed attempt exactly when
\* attempts remain, and is always followed by another attempt of the same
\* cell; it is never taken after a success or an empty result, nor after the
\* last failed attempt, where the exhaustion is logged and the run moves on
\* to the next cell.
C17_BackoffOnlyBetweenAttempts ==
    \A p \in 1..Len(calls) :
        /\ IsScrape(calls[p]) =>
              /\ FailedWithAttemptsLeft(calls[p])
                    <=> (p < Len(calls) /\ IsBackoff(calls[p + 1]))
              /\ (calls[p].outcome = "raise" /\ ~FailedWithAttemptsLeft(calls[p])) =>
                    /\ MsgMaxRetries(calls[p].search_term, calls[p].location)
                          \in Range(stderr)
                    /\ ~StillOn(calls[p])
                    /\ \A q \in (p + 1)..Len(calls) :
                          IsScrape(calls[q]) => CellOf(calls[q]) # CellOf(calls[p])
              /\ calls[p].outcome # "raise" =>
                    MsgMaxRetries(calls[p].search_term, calls[p].location)
                          \notin Range(stderr)
        /\ IsBackoff(calls[p]) =>
              /\ p > 1 /\ IsScrape(calls[p - 1])
              /\ p < Len(calls) =>
                    /\ IsScrape(calls[p + 1])
                    /\ CellOf(calls[p + 1]) = CellOf(calls[p - 1])
                    /\ calls[p + 1].attempt = calls[p - 1].attempt + 1
              /\ p = Len(calls) =>
                    /\ StillOn(calls[p - 1])
                    /\ attempt = calls[p - 1].attempt + 1
                    /\ attempt < scraping_config.retry_attempts

\* C17 witness: one cell failed, backed off and then succeeded; the next
\* failed twice, backed off once and was given up with the exhaustion logged;
\* the run is on a third cell.
C17_Witness ==
    LET sc == ScrapeCalls
    IN /\ Len(sc) = 4
       /\ sc[1].outcome = "raise" /\ sc[2].outcome = "records"
       /\ sc[3].outcome = "raise" /\ sc[4].outcome = "raise"
       /\ Len(SelectSeq(calls, IsBackoff)) = 2
       /\ MsgMaxRetries(sc[4].search_term, sc[4].location) \in Range(stderr)
       /\ pc = "attempt"
       /\ ~StillOn(sc[4])

\* scrape_jobs_jobspy has taken its two slices
ScrapeStarted == JOBSPY_AVAILABLE /\ pc # "main"

\* short is the first Min(Len(long), m) entries of long
IsFirstOf(short, long, m) ==
    /\ Len(short) = Min(Len(long), m)
    /\ \A k \in 1..Len(short) : short[k] = long[k]

\* C18: a run uses only the first max_search_terms search terms and the first
\* max_locations locations; the cells are attempted in term-major,
\* location-minor order, all attempts of a cell before any attempt of the
\* next, no cell revisited, and no cell outside the truncated matrix.
C18_TruncatedMatrixInOrder ==
    ScrapeStarted =>
        LET sc == ScrapeCalls
            cells == MatrixCells
            Index(c) == CHOOSE k \in 1..Len(cells) : cells[k] = CellOf(c)
        IN /\ IsFirstOf(search_terms_to_use, search_terms,
                        scraping_config.max_search_terms)
           /\ IsFirstOf(locations_to_use, locations, scraping_config.max_locations)
           /\ \A p \in 1..Len(sc) :
                 /\ \E k \in 1..Len(cells) : cells[k] = CellOf(sc[p])
                 /\ p = 1 => Index(sc[p]) = 1
                 /\ p > 1 => Index(sc[p]) \in {Index(sc[p - 1]), Index(sc[p - 1]) + 1}

\* C18 witness: a list of search terms was cut, and the run went through the
\* cells that were left, the first one twice, before returning.
C18_Witness ==
    /\ pc = "scraped"
    /\ Len(search_terms) > scraping_config.max_search_terms
    /\ Len(MatrixCells) = 2
    /\ Len(ScrapeCalls) = 3
    /\ CellOf(ScrapeCalls[2]) = MatrixCells[1]
    /\ CellOf(ScrapeCalls[3]) = MatrixCells[2]

\* the attempts the configuration allows: every cell, every retry
AttemptBudget ==
    scraping_config.max_search_terms * scraping_config.max_locations
        * scraping_config.retry_attempts

\* C19: provided every retrieval call and every pause returns, a run
\* eventually completes; and in every reachable state the retrieval attempts
\* made so far number at most max_search_terms * max_locations *
\* retry_attempts.
C19_TerminatesWithinBudget ==
    /\ <>(pc = "done")
    /\ [](Len(ScrapeCalls) <= AttemptBudget)

\* C19 witness: a run over a 2 x 2 matrix has completed after failing every
\* attempt of every cell, which used the whole budget.
C19_Witness ==
    /\ pc = "done"
    /\ Len(MatrixCells) = 4
    /\ scraping_config.retry_attempts > 1
    /\ Len(ScrapeCalls) = AttemptBudget
    /\ \A p \in 1..Len(ScrapeCalls) : ScrapeCalls[p].outcome = "raise"

\* the step from all_jobs to all_jobs' follows the calls the step has made
AccumulatorStep ==
    LET new == SubSeq(calls', Len(calls) + 1, Len(calls'))
        succeeded == {k \in 1..Len(new) :
                         IsScrape(new[k]) /\ new[k].outcome = "records"}
    IN /\ Len(all_jobs) <= Len(all_jobs')
       /\ SubSeq(all_jobs', 1, Len(all_jobs)) = all_jobs
       /\ succeeded = {} => all_jobs' = all_jobs
       /\ \A k \in succeeded :
             /\ new[k].returned # << >>
             /\ all_jobs' = all_jobs \o new[k].returned

\* C20: the accumulator is append-only: its earlier content is always a
\* prefix of its later content, and it changes only on an attempt that
\* succeeds with records, by appending all of that attempt's records; a
\* failed attempt, an empty attempt, a pacing pause and a backoff pause leave
\* it unchanged.
C20_AccumulatorAppendOnly == [][AccumulatorStep]_vars

\* C20 witness: the accumulator holds the records of two successful attempts
\* with a failed attempt, a backoff pause, an empty attempt and a pacing
\* pause between them.
C20_Witness ==
    LET sc == ScrapeCalls
    IN /\ Len(sc) = 4
       /\ sc[1].outcome = "records" /\ sc[2].outcome = "raise"
       /\ sc[3].outcome = "empty" /\ sc[4].outcome = "records"
       /\ all_jobs = sc[1].returned \o sc[4].returned
       /\ Len(sc[1].returned) = MaxRecs
       /\ \E p \in 1..Len(calls) : IsBackoff(calls[p])
       /\ \E p \in 1..Len(calls) : IsPacing(calls[p])

====
